---- MODULE Spec2Model ----
(***************************************************************************)
(* Plan API (Flask) -> record store (Redis) -> job queue (RabbitMQ) ->     *)
(* worker -> search index (Elasticsearch parent/child join index).         *)
(*                                                                         *)
(* A JSON object is a function from its keys to its values, a JSON array a *)
(* sequence.  The specifications share the state:                          *)
(*   SpecIdx       the indexer's three entry points applied to an index,   *)
(*   Spec          the API handlers, the broker and a worker,              *)
(*   SpecFault     Spec plus worker crashes and failing publishes,         *)
(*   SpecApi       every request the API handlers distinguish, no consumer,*)
(*   SpecMalformed a worker fed bodies that need not decode or dispatch,   *)
(*   SpecRead      POST and GET with every If-None-Match header,           *)
(*   SpecRace      PUT and PATCH as check and write steps of two threads,  *)
(*   SpecDeclare   the API and the workers starting against a new broker,  *)
(*   SpecWorkers   two consumers on the main queue.                        *)
(***************************************************************************)
EXTENDS Integers, Sequences, FiniteSets, TLC

VARIABLES
    index,      \* the search index: document _id -> [routing, src]
    lastCall,   \* the job last dispatched to the indexer and its outcome
    prevIndex,  \* the index before lastCall
    nops,       \* SpecIdx: jobs handled so far
    store,      \* the record store: plan id -> record
    queue,      \* the main queue: messages [tag, body], head first
    dlq,        \* the dead-letter queue: messages [tag, body]
    unacked,    \* per worker: the message delivered and not yet acknowledged
    pc,         \* per worker: where on_msg stands
    cur,        \* per worker: the message on_msg holds after its ack
    resp,       \* the last API request and its response
    nreq,       \* requests made so far
    pubs,       \* history: the job bodies published, by tag
    stats,      \* history: per tag, deliveries, republishes, applications
    nfail,      \* history: index requests that failed so far
    ncrash,     \* history: times a worker process ended abnormally
    txn,        \* per client: the write it has checked and not yet applied
    qargs,      \* the arguments the main queue was declared with
    acks        \* history: per tag, the basic_ack calls made for it

idxVars == <<index, lastCall, prevIndex, nops>>

pipeVars == <<store, queue, dlq, unacked, pc, cur, resp, nreq, pubs, stats, nfail, ncrash,
              txn, qargs, acks>>

vars == <<index, lastCall, prevIndex, nops,
          store, queue, dlq, unacked, pc, cur, resp, nreq, pubs, stats, nfail, ncrash,
          txn, qargs, acks>>

----------------------------------------------------------------------------
(* Bounds *)

MaxOps == 2

MaxRequests == 2

MaxFailures == 6

MaxCrashes == 1

----------------------------------------------------------------------------
(* JSON values *)

EmptyDict == <<>>

Has(d, k) == k \in DOMAIN d

\* Python truthiness of d.get(k) for string values
TruthyAt(d, k) == Has(d, k) /\ d[k] # ""

\* d.get(k) or {}   for object values
GetDict(d, k) == IF Has(d, k) THEN d[k] ELSE EmptyDict

\* d.get(k, []) or []   for array values
GetList(d, k) == IF Has(d, k) THEN d[k] ELSE <<>>

\* {k: d[k] for k in keys if k in d}
Pick(d, keys) == [k \in (DOMAIN d) \cap keys |-> d[k]]

\* {k: v for k, v in d.items() if k not in keys}
Omit(d, keys) == [k \in (DOMAIN d) \ keys |-> d[k]]

\* {**a, **b}: b's keys win
Merge(a, b) == b @@ a

----------------------------------------------------------------------------
(* The search index.  ensure_index creates it with one shard, so a document *)
(* is identified by its _id alone; routing is stored with the document.     *)

NoIndex == <<>>

Put(idx, id, doc) ==
    [i \in (DOMAIN idx) \cup {id} |-> IF i = id THEN doc ELSE idx[i]]

Drop(idx, ids) == [i \in (DOMAIN idx) \ ids |-> idx[i]]

_routing(pid) == [routing |-> pid, refresh |-> "wait_for"]

\* One request to the index, as issued by the indexer.
IndexReq(id, src, params) ==
    [op |-> "index", id |-> id, routing |-> params.routing, src |-> src]

\* "rel": "plan" is the join field's short form of {"name": "plan"}.
_upsert_parent(plan_id, fields) ==
    IF fields = EmptyDict
    THEN <<>>
    ELSE << IndexReq(plan_id,
                     Merge([objectId |-> plan_id, objectType |-> "plan",
                            rel |-> [name |-> "plan"]], fields),
                     _routing(plan_id)) >>

\* a child upsert routed by the child's own id
_upsert_child_selfRouted(parent_id, child_id, rel_name, doc) ==
    << IndexReq(child_id,
                Merge(doc, [rel |-> [name |-> rel_name, parent |-> parent_id]]),
                _routing(child_id)) >>

_upsert_child(parent_id, child_id, rel_name, doc) ==
    << IndexReq(child_id,
                Merge(doc, [rel |-> [name |-> rel_name, parent |-> parent_id]]),
                _routing(parent_id)) >>

\* the body of the for loop over linkedPlanServices (same in index and patch)
ItemReqs(plan_id, item) ==
    LET svc  == GetDict(item, "linkedService")
        pscs == GetDict(item, "planserviceCostShares")
    IN  (IF TruthyAt(svc, "objectId")
         THEN _upsert_child(plan_id, svc["objectId"], "linkedPlanServices", svc)
         ELSE <<>>)
        \o
        (IF TruthyAt(pscs, "objectId")
         THEN _upsert_child(plan_id, pscs["objectId"], "planserviceCostShares", pscs)
         ELSE <<>>)

RECURSIVE LinkedReqs(_, _)
LinkedReqs(plan_id, items) ==
    IF items = <<>> THEN <<>>
    ELSE ItemReqs(plan_id, Head(items)) \o LinkedReqs(plan_id, Tail(items))

ParentKeys == {"_org", "planType", "creationDate"}

ChildKeys == {"planCostShares", "linkedPlanServices"}

\* index_plan raises ValueError before any request when objectId is missing
IndexPlanRaises(plan_doc) == ~TruthyAt(plan_doc, "objectId")

\* the requests index_plan issues, in order
index_plan(plan_doc) ==
    IF IndexPlanRaises(plan_doc) THEN <<>>
    ELSE
    LET plan_id == plan_doc["objectId"]
        pcs     == GetDict(plan_doc, "planCostShares")
    IN  _upsert_parent(plan_id, Pick(plan_doc, ParentKeys))
        \o
        (IF TruthyAt(pcs, "objectId")
         THEN _upsert_child(plan_id, pcs["objectId"], "planCostShares", pcs)
         ELSE <<>>)
        \o
        LinkedReqs(plan_id, GetList(plan_doc, "linkedPlanServices"))

\* a patch that replaces: the plan's documents are removed before the upserts
patch_plan_index_replace(plan_id, updates) ==
    LET pcs == GetDict(updates, "planCostShares")
    IN  << [op |-> "dbq_routing", pid |-> plan_id] >>
        \o
        _upsert_parent(plan_id, Omit(updates, ChildKeys))
        \o
        (IF Has(updates, "planCostShares") /\ TruthyAt(pcs, "objectId")
         THEN _upsert_child(plan_id, pcs["objectId"], "planCostShares", pcs)
         ELSE <<>>)
        \o
        LinkedReqs(plan_id, GetList(updates, "linkedPlanServices"))

\* the requests patch_plan issues, in order
patch_plan_index(plan_id, updates) ==
    LET pcs == GetDict(updates, "planCostShares")
    IN  _upsert_parent(plan_id, Omit(updates, ChildKeys))
        \o
        (IF Has(updates, "planCostShares") /\ TruthyAt(pcs, "objectId")
         THEN _upsert_child(plan_id, pcs["objectId"], "planCostShares", pcs)
         ELSE <<>>)
        \o
        LinkedReqs(plan_id, GetList(updates, "linkedPlanServices"))

\* a delete without the final delete-by-query on routing
delete_plan_from_index_joinOnly(plan_id) ==
    << [op |-> "delete", id |-> plan_id, routing |-> _routing(plan_id).routing],
       [op |-> "dbq_has_parent", pid |-> plan_id] >>

\* the requests delete_plan_from_index issues, in order
delete_plan_from_index(plan_id) ==
    << [op |-> "delete", id |-> plan_id, routing |-> _routing(plan_id).routing],
       [op |-> "dbq_has_parent", pid |-> plan_id],
       [op |-> "dbq_routing", pid |-> plan_id] >>

IsParentDoc(idx, id) == id \in DOMAIN idx /\ idx[id].src["rel"].name = "plan"

\* has_parent{parent_type: plan, query: term _id = pid}: the children whose
\* join parent is an existing plan document with that _id
HasParentHits(idx, pid) ==
    { i \in DOMAIN idx :
        /\ Has(idx[i].src["rel"], "parent")
        /\ idx[i].src["rel"].parent = pid
        /\ IsParentDoc(idx, pid) }

RoutingHits(idx, pid) == { i \in DOMAIN idx : idx[i].routing = pid }

\* an index whose documents keep a count of the writes made to them
ApplyReq_versioned(idx, r) ==
    CASE r.op = "index"  ->
           Put(idx, r.id, [routing |-> r.routing, src |-> r.src,
                           version |-> IF r.id \in DOMAIN idx /\ Has(idx[r.id], "version")
                                       THEN idx[r.id].version + 1 ELSE 1])
      [] r.op = "delete" -> Drop(idx, {r.id})
      [] r.op = "dbq_has_parent" -> Drop(idx, HasParentHits(idx, r.pid))
      [] r.op = "dbq_routing"    -> Drop(idx, RoutingHits(idx, r.pid))

\* What one request does to the index.  ES.index replaces the whole document;
\* ES.delete of a missing document raises NotFoundError, which the caller
\* swallows.
ApplyReq(idx, r) ==
    CASE r.op = "index"  -> Put(idx, r.id, [routing |-> r.routing, src |-> r.src])
      [] r.op = "delete" -> Drop(idx, {r.id})
      [] r.op = "dbq_has_parent" -> Drop(idx, HasParentHits(idx, r.pid))
      [] r.op = "dbq_routing"    -> Drop(idx, RoutingHits(idx, r.pid))

RECURSIVE Run(_, _)
Run(idx, reqs) ==
    IF reqs = <<>> THEN idx ELSE Run(ApplyReq(idx, Head(reqs)), Tail(reqs))

----------------------------------------------------------------------------
(* The worker's dispatch (on_msg, the body of its try block up to the ack) *)

MAX_ATTEMPTS == 5

Raised(e) == [raises |-> e, reqs |-> <<>>]

Calls(reqs) == [raises |-> "none", reqs |-> reqs]

JobType(job) == IF Has(job, "type") THEN job["type"] ELSE "None"

\* What handling `job` does before any request to the index is made: the
\* exception it raises on its own, or the requests it goes on to issue.
Dispatch(job) ==
    CASE JobType(job) = "index" ->
           IF ~Has(job, "doc") THEN Raised("KeyError: 'doc'")
           ELSE IF IndexPlanRaises(job["doc"])
                THEN Raised("ValueError: index_plan: objectId (plan id) is required")
                ELSE Calls(index_plan(job["doc"]))
      [] JobType(job) = "patch" ->
           IF ~Has(job, "id") THEN Raised("KeyError: 'id'")
           ELSE IF ~Has(job, "doc") THEN Raised("KeyError: 'doc'")
                ELSE Calls(patch_plan_index(job["id"], job["doc"]))
      [] JobType(job) = "delete" ->
           IF ~Has(job, "id") THEN Raised("KeyError: 'id'")
           ELSE Calls(delete_plan_from_index(job["id"]))
      [] OTHER -> Raised("ValueError: Unknown job type")

\* a worker whose transient clause catches every exception
Outcome_retryAll(d, done) ==
    IF d.raises # "none" THEN "transient"
    ELSE IF done = Len(d.reqs) THEN "ok"
    ELSE "transient"

\* Which except clause, if any, the try block ends in when `done` of the
\* job's requests succeed: none ("ok"), the connection/transport one
\* ("transient") or the catch-all ("permanent").
Outcome(d, done) ==
    IF d.raises # "none" THEN "permanent"
    ELSE IF done = Len(d.reqs) THEN "ok"
    ELSE "transient"

\* a ceiling one republish lower
ShouldRetry_strict(attempt) == attempt < MAX_ATTEMPTS

\* `if job["attempt"] <= MAX_ATTEMPTS`
ShouldRetry(attempt) == attempt <= MAX_ATTEMPTS

\* a worker that counts every failure as the first
Attempt_first(job) == 0

\* job.get("attempt", 0)
Attempt(job) == IF Has(job, "attempt") THEN job["attempt"] ELSE 0

----------------------------------------------------------------------------
(* Inputs of the indexer *)

Child(i, v) == [objectId |-> i, copay |-> v]

ChildObjs == { Child("s1", "1"), Child("p1", "1"), [copay |-> "1"] }

ItemLists ==
    { <<[linkedService |-> [objectId |-> "s1"]]>>,
      <<[linkedService |-> Child("s2", "2"),
         planserviceCostShares |-> Child("s1", "2")]>>,
      <<[linkedService |-> [name |-> "n"],
         planserviceCostShares |-> Child("s2", "1")]>> }

\* the parent-level fields of a record, and of an update
ParentParts ==
    { EmptyDict, [planType |-> "a"], [planType |-> "a", _org |-> "o"] }

UpdateParts == { EmptyDict, [planType |-> "b"] }

ChildParts ==
    {EmptyDict}
    \cup { [planCostShares |-> c] : c \in ChildObjs }
    \cup { [linkedPlanServices |-> l] : l \in ItemLists }
    \cup { [planCostShares |-> Child("s1", "1"),
            linkedPlanServices |-> <<[linkedService |-> Child("s2", "1")]>>] }

PlanIds == {"p1", "p2"}

\* full records handed to index_plan: those of plan p1, two of plan p2 and
\* one that lacks objectId
IdxRecords ==
    { Merge([objectId |-> "p1"], Merge(a, c)) :
        a \in ParentParts, c \in ChildParts }
    \cup { [objectId |-> "p2", planType |-> "a"],
           [objectId |-> "p2", planType |-> "a",
            planCostShares |-> Child("s2", "1")] }
    \cup { [planType |-> "a"] }

\* partial updates handed to patch_plan
IdxUpdates == { Merge(a, c) : a \in UpdateParts, c \in ChildParts }

----------------------------------------------------------------------------
(* SpecIdx: jobs handed to the worker's dispatch one after another, with   *)
(* the index reachable.  The rest of the state stays as Initialised.       *)

NoCall == [op |-> "none"]

NoMsg == [tag |-> 0]

Workers == {"w1", "w2"}

\* the consumers running under Spec and SpecFault
Solo == {"w1"}

NoResp == [method |-> "none"]

\* the API's request threads that take part in a race
Clients == {"c1", "c2"}

NoTxn == [phase |-> "none"]

\* the main queue: not declared, declared as worker.main declares it, or as
\* queue_service._channel declares it (with dead-letter routing)
NoQueue == "undeclared"

PlainArgs == "durable"

DlxArgs == "durable, x-dead-letter-exchange, x-dead-letter-routing-key"

InitPipe ==
    /\ store = <<>>
    /\ queue = <<>>
    /\ dlq = <<>>
    /\ unacked = [w \in Workers |-> NoMsg]
    /\ pc = [w \in Workers |-> "idle"]
    /\ cur = [w \in Workers |-> NoMsg]
    /\ resp = NoResp
    /\ nreq = 0
    /\ pubs = <<>>
    /\ stats = <<>>
    /\ nfail = 0
    /\ ncrash = 0
    /\ txn = [c \in Clients |-> NoTxn]
    /\ acks = <<>>

\* the workers are consuming: the main queue is as worker.main declared it
Init ==
    /\ index = NoIndex
    /\ lastCall = NoCall
    /\ prevIndex = NoIndex
    /\ nops = 0
    /\ InitPipe
    /\ qargs = PlainArgs

\* the jobs the API publishes: index carries the record, patch the plan id
\* and the update, delete the plan id
IndexJobs == { [type |-> "index", doc |-> rec] : rec \in IdxRecords }

PatchJobs ==
    { [type |-> "patch", id |-> id, doc |-> u] : id \in PlanIds, u \in IdxUpdates }

DeleteJobs == { [type |-> "delete", id |-> id] : id \in PlanIds }

\* the indexer entry point `job` is dispatched to, with its arguments
CallOf(job) ==
    CASE job["type"] = "index"  -> [op |-> "index", doc |-> job["doc"]]
      [] job["type"] = "patch"  ->
           [op |-> "patch", id |-> job["id"], updates |-> job["doc"]]
      [] job["type"] = "delete" -> [op |-> "delete", id |-> job["id"]]

\* the worker handles `job` to the end of its try block
Handle(job) ==
    LET d == Dispatch(job)
    IN  /\ nops < MaxOps
        /\ index' = Run(index, d.reqs)
        /\ lastCall' = CallOf(job) @@ [raised |-> d.raises # "none",
                                        error |-> d.raises,
                                        outcome |-> Outcome(d, Len(d.reqs))]
        /\ prevIndex' = index
        /\ nops' = nops + 1
        /\ UNCHANGED pipeVars

NextIdx ==
    \/ \E job \in IndexJobs : Handle(job)
    \/ \E job \in PatchJobs : Handle(job)
    \/ \E job \in DeleteJobs : Handle(job)

SpecIdx == Init /\ [][NextIdx]_vars

----------------------------------------------------------------------------
(* The record store (redis_service) and the queue client (queue_service) *)

_key(object_id) == <<"plan_", object_id>>

\* json.dumps(value, sort_keys=True) and json.loads: an object's keys carry
\* no order here, so the text is the object in a wrapper
dumps(value) == [json |-> value]

loads(raw) == raw.json

set_data(kv, key, value) == Put(kv, key, dumps(value))

HasData(kv, key) == key \in DOMAIN kv /\ loads(kv[key]) # EmptyDict

get_data(kv, key) == loads(kv[key])

delete_data(kv, key) == Drop(kv, {key})

\* md5 over the canonical text: equal digests for equal records only
_etag(payload) == [md5 |-> dumps(payload)]

\* a broker that puts a new message at the head of the queue
publish_head(q, tag, job) == <<[tag |-> tag, body |-> job]>> \o q

\* basic_publish to the main queue: a new message at the tail
publish(q, tag, job) == Append(q, [tag |-> tag, body |-> job])

NoStats == [deliv |-> 0, repub |-> 0, applied |-> 0]

----------------------------------------------------------------------------
(* Inputs of the API *)

PlanA == [objectId |-> "p1", planType |-> "a"]

PlanB == [objectId |-> "p1", planType |-> "b",
          planCostShares |-> Child("s1", "1")]

BadPlan == [objectId |-> "p1"]

ValidPlans == {PlanA, PlanB}

ApiPlans == ValidPlans \cup {BadPlan}

ApiUpdates ==
    { [planType |-> "b"],
      [linkedPlanServices |-> <<[linkedService |-> Child("s2", "1")]>>] }

PipeUpdates == { [planType |-> "b"] }

\* validate_schema(plan_schema, data): the schema is not part of the sources;
\* it is taken to require the identifying and the type field
validate_schema(data) == Has(data, "objectId") /\ Has(data, "planType")

\* a request header: absent, present and empty, or a digest
NoHeader == [kind |-> "absent"]

EmptyHeader == [kind |-> "empty"]

DigestHeader(payload) == [kind |-> "digest", value |-> _etag(payload)]

IfMatchValues == {NoHeader, EmptyHeader, DigestHeader(PlanA), DigestHeader(PlanB)}

\* a handler that ignores If-Match
IfMatchFails_ignored(h, etag) == FALSE

\* `if client_if_match and client_if_match != etag`
IfMatchFails(h, etag) == h.kind = "digest" /\ h.value # etag

\* jobs put on the queue by something other than the API
ForeignJobs == { [type |-> "reindex", id |-> "p1"] }

----------------------------------------------------------------------------
(* The API handlers (plan_controller).  pubOk: whether the broker accepts   *)
(* the publish; _publish_safe turns a failed publish into a 503.            *)

Request(method, id, h, body) ==
    [method |-> method, id |-> id, ifMatch |-> h, body |-> body]

Respond(req, status) ==
    /\ resp' = req @@ [status |-> status]
    /\ nreq' = nreq + 1

RespondEtag(req, status, payload) ==
    /\ resp' = req @@ [status |-> status, etag |-> _etag(payload)]
    /\ nreq' = nreq + 1

\* a _publish_safe that swallows the failure
PublishSafe_silent(job, pubOk, req, status, payload) ==
    /\ IF pubOk
       THEN /\ queue' = publish(queue, Len(pubs) + 1, job)
            /\ qargs' = IF qargs = NoQueue THEN DlxArgs ELSE qargs
            /\ pubs' = Append(pubs, job)
            /\ stats' = Append(stats, NoStats)
       ELSE UNCHANGED <<queue, qargs, pubs, stats>>
    /\ IF payload = EmptyDict
       THEN Respond(req, status)
       ELSE RespondEtag(req, status, payload)

\* _publish_safe(job), then the success response or the 503
PublishSafe(job, pubOk, req, status, payload) ==
    IF pubOk
    THEN /\ queue' = publish(queue, Len(pubs) + 1, job)
         /\ qargs' = IF qargs = NoQueue THEN DlxArgs ELSE qargs
         /\ pubs' = Append(pubs, job)
         /\ stats' = Append(stats, NoStats)
         /\ IF payload = EmptyDict
            THEN Respond(req, status)
            ELSE RespondEtag(req, status, payload)
    ELSE /\ UNCHANGED <<queue, qargs, pubs, stats>>
         /\ Respond(req, 503)

Rejected(req, status) ==
    /\ Respond(req, status)
    /\ UNCHANGED <<store, queue, qargs, pubs, stats>>

apiFrame == <<index, lastCall, prevIndex, nops, dlq, unacked, pc, cur, nfail, ncrash,
              txn, acks>>

create_plan(data, pubOk) ==
    LET req == Request("POST", "", NoHeader, data)
    IN  /\ nreq < MaxRequests
        /\ UNCHANGED apiFrame
        /\ IF ~validate_schema(data) THEN Rejected(req, 400)
           ELSE IF ~TruthyAt(data, "objectId") THEN Rejected(req, 400)
           ELSE /\ store' = set_data(store, _key(data["objectId"]), data)
                /\ PublishSafe([type |-> "index", id |-> data["objectId"],
                                doc |-> data], pubOk, req, 201, data)

put_plan(object_id, payload, h, pubOk) ==
    LET req == Request("PUT", object_id, h, payload)
    IN  /\ nreq < MaxRequests
        /\ UNCHANGED apiFrame
        /\ IF ~validate_schema(payload) THEN Rejected(req, 400)
           ELSE IF /\ HasData(store, _key(object_id))
                   /\ IfMatchFails(h, _etag(get_data(store, _key(object_id))))
                THEN Rejected(req, 412)
           ELSE /\ store' = set_data(store, _key(object_id), payload)
                /\ PublishSafe([type |-> "index", id |-> object_id,
                                doc |-> payload], pubOk, req, 201, payload)

\* child_ops of the patch job: one entry per linkedService and
\* planserviceCostShares sub-object that carries an objectId
ChildOp(type, object_id, doc) ==
    [type |-> type, parentId |-> object_id, id |-> doc["objectId"], doc |-> doc]

RECURSIVE ChildOps(_, _)
ChildOps(object_id, items) ==
    IF items = <<>> THEN <<>>
    ELSE LET svc  == GetDict(Head(items), "linkedService")
             cost == GetDict(Head(items), "planserviceCostShares")
         IN  (IF TruthyAt(svc, "objectId")
              THEN <<ChildOp("linkedService", object_id, svc)>> ELSE <<>>)
             \o
             (IF TruthyAt(cost, "objectId")
              THEN <<ChildOp("planserviceCostShares", object_id, cost)>> ELSE <<>>)
             \o ChildOps(object_id, Tail(items))

\* merged = {**existing, **updates without linkedPlanServices}, then the
\* client's linkedPlanServices in place of the stored one
PatchMerged(existing, updates) ==
    LET shallow == Merge(existing, Omit(updates, {"linkedPlanServices"}))
    IN  IF Has(updates, "linkedPlanServices")
        THEN Merge(shallow, Pick(updates, {"linkedPlanServices"}))
        ELSE shallow

PatchJob(object_id, updates) ==
    [type |-> "patch", id |-> object_id,
     plan_doc |-> Pick(updates, {"planType", "_org", "creationDate"}),
     child_ops |-> ChildOps(object_id, GetList(updates, "linkedPlanServices"))]

patch_plan(object_id, updates, h, pubOk) ==
    LET req == Request("PATCH", object_id, h, updates)
    IN  /\ nreq < MaxRequests
        /\ UNCHANGED apiFrame
        /\ IF ~HasData(store, _key(object_id)) THEN Rejected(req, 404)
           ELSE LET existing == get_data(store, _key(object_id))
                    merged   == PatchMerged(existing, updates)
                IN  IF IfMatchFails(h, _etag(existing)) THEN Rejected(req, 412)
                    ELSE IF ~validate_schema(merged) THEN Rejected(req, 400)
                    ELSE /\ store' = set_data(store, _key(object_id), merged)
                         /\ PublishSafe(PatchJob(object_id, updates), pubOk,
                                        req, 200, merged)

delete_plan(object_id, pubOk) ==
    LET req     == Request("DELETE", object_id, NoHeader, EmptyDict)
        existed == HasData(store, _key(object_id))
    IN  /\ nreq < MaxRequests
        /\ UNCHANGED apiFrame
        /\ store' = delete_data(store, _key(object_id))
        /\ PublishSafe([type |-> "delete", id |-> object_id], pubOk, req,
                       IF existed THEN 202 ELSE 404, EmptyDict)

\* a job published to the main queue from outside the API
Enqueue(job) ==
    /\ nreq < MaxRequests
    /\ UNCHANGED apiFrame
    /\ UNCHANGED store
    /\ PublishSafe(job, TRUE, Request("ENQUEUE", "", NoHeader, job), 0, EmptyDict)

----------------------------------------------------------------------------
(* The broker's delivery and the worker (worker.py) *)

workerFrame == <<store, resp, nreq, pubs, nops, ncrash, txn, qargs>>

Bump(tag, field) ==
    [stats EXCEPT ![tag] = [@ EXCEPT ![field] = @ + 1]]

\* a broker that delivers without regard to the prefetch limit
Deliver_unlimited(w) ==
    /\ queue # <<>>
    /\ unacked' = [unacked EXCEPT ![w] = Head(queue)]
    /\ queue' = Tail(queue)
    /\ stats' = Bump(Head(queue).tag, "deliv")
    /\ UNCHANGED <<index, lastCall, prevIndex, dlq, pc, cur, nfail, acks>>
    /\ UNCHANGED workerFrame

\* basic_consume with basic_qos(prefetch_count=1): the broker hands the head
\* of the queue to a consumer that holds no unacknowledged message
Deliver(w) ==
    /\ unacked[w] = NoMsg
    /\ queue # <<>>
    /\ unacked' = [unacked EXCEPT ![w] = Head(queue)]
    /\ queue' = Tail(queue)
    /\ stats' = Bump(Head(queue).tag, "deliv")
    /\ UNCHANGED <<index, lastCall, prevIndex, dlq, pc, cur, nfail, acks>>
    /\ UNCHANGED workerFrame

Held(tag, job, error) == [tag |-> tag, body |-> job, error |-> error]

\* a message body that is not JSON text
Garbage == [undecodable |-> "{not json"]

\* whether json.loads(body) returns
Decodes(body) == ~Has(body, "undecodable")

\* a worker that never acknowledges
basic_ack_never(u, w) == u

\* ch_.basic_ack(delivery_tag): the consumer's delivery is settled
basic_ack(u, w) == [u EXCEPT ![w] = NoMsg]

Acked(tag) ==
    IF tag \in DOMAIN acks THEN [acks EXCEPT ![tag] = @ + 1] ELSE acks @@ (tag :> 1)

\* The worker process ends: the broker returns its unacknowledged delivery to
\* the head of the queue; what on_msg held after its ack is gone.  The
\* process is started again.
Die(w) ==
    /\ ncrash < MaxCrashes
    /\ ncrash' = ncrash + 1
    /\ queue' = IF unacked[w] = NoMsg THEN queue ELSE <<unacked[w]>> \o queue
    /\ unacked' = [unacked EXCEPT ![w] = NoMsg]
    /\ pc' = [pc EXCEPT ![w] = "idle"]
    /\ cur' = [cur EXCEPT ![w] = NoMsg]
    /\ UNCHANGED <<index, lastCall, prevIndex, nops, store, dlq, resp, nreq,
                   pubs, stats, nfail, txn, qargs, acks>>

\* on_msg up to and including basic_ack.  json.loads(body) stands before the
\* try: when it raises, the exception leaves on_msg and start_consuming, and
\* main ends with the delivery unacknowledged.  done: how many of the job's
\* index requests succeed; a request that does not raises a
\* connection/transport error.
on_msg(w) ==
    LET m   == unacked[w]
        job == m.body
        d   == Dispatch(job)
    IN  /\ pc[w] = "idle"
        /\ m # NoMsg
        /\ IF ~Decodes(m.body)
           THEN Die(w)
           ELSE
           /\ \E done \in 0..Len(d.reqs) :
               LET retry == Merge(job, [attempt |-> Attempt(job) + 1])
               IN  /\ Outcome(d, done) = "transient" => nfail < MaxFailures
                   /\ nfail' = IF Outcome(d, done) = "transient"
                               THEN nfail + 1 ELSE nfail
                   /\ index' = Run(index, SubSeq(d.reqs, 1, done))
                   /\ unacked' = basic_ack(unacked, w)
                   /\ acks' = Acked(m.tag)
                   /\ CASE Outcome(d, done) = "ok" ->
                             /\ stats' = Bump(m.tag, "applied")
                             /\ UNCHANGED <<pc, cur>>
                        [] Outcome(d, done) = "transient" ->
                             /\ pc' = [pc EXCEPT ![w] =
                                         IF ShouldRetry(retry["attempt"])
                                         THEN "sleep" ELSE "to_dlq"]
                             /\ cur' = [cur EXCEPT ![w] =
                                         Held(m.tag, retry, "ConnectionError")]
                             /\ UNCHANGED stats
                        [] Outcome(d, done) = "permanent" ->
                             /\ pc' = [pc EXCEPT ![w] = "to_dlq"]
                             /\ cur' = [cur EXCEPT ![w] = Held(m.tag, job, d.raises)]
                             /\ UNCHANGED stats
           /\ UNCHANGED <<queue, dlq, lastCall, prevIndex>>
           /\ UNCHANGED workerFrame

\* time.sleep(min(2 ** attempt, 30)) is over; republish(job)
republish(w) ==
    /\ pc[w] = "sleep"
    /\ queue' = publish(queue, cur[w].tag, cur[w].body)
    /\ stats' = Bump(cur[w].tag, "repub")
    /\ pc' = [pc EXCEPT ![w] = "idle"]
    /\ cur' = [cur EXCEPT ![w] = NoMsg]
    /\ UNCHANGED <<index, lastCall, prevIndex, dlq, unacked, nfail, acks>>
    /\ UNCHANGED workerFrame

\* to_dlq(job, err)
to_dlq(w) ==
    /\ pc[w] = "to_dlq"
    /\ dlq' = Append(dlq, [tag |-> cur[w].tag,
                           body |-> [error |-> cur[w].error, job |-> cur[w].body]])
    /\ pc' = [pc EXCEPT ![w] = "idle"]
    /\ cur' = [cur EXCEPT ![w] = NoMsg]
    /\ UNCHANGED <<index, lastCall, prevIndex, queue, unacked, stats, nfail, acks>>
    /\ UNCHANGED workerFrame

\* Spec: unconditional requests with valid bodies, the broker up, one consumer
Next ==
    \/ \E data \in ValidPlans : create_plan(data, TRUE)
    \/ \E id \in PlanIds, data \in ValidPlans : put_plan(id, data, NoHeader, TRUE)
    \/ \E id \in PlanIds, u \in PipeUpdates : patch_plan(id, u, NoHeader, TRUE)
    \/ \E id \in PlanIds : delete_plan(id, TRUE)
    \/ \E job \in ForeignJobs : Enqueue(job)
    \/ \E w \in Solo : Deliver(w)
    \/ \E w \in Solo : on_msg(w)
    \/ \E w \in Solo : republish(w)
    \/ \E w \in Solo : to_dlq(w)

Spec == Init /\ [][Next]_vars

\* the process is killed while it handles or holds a message
Crash(w) ==
    /\ (pc[w] # "idle" \/ unacked[w] # NoMsg)
    /\ Die(w)

\* basic_publish in republish or to_dlq raises: nothing in on_msg catches it,
\* start_consuming re-raises it and main ends
PublishFails(w) ==
    /\ pc[w] \in {"sleep", "to_dlq"}
    /\ Die(w)

\* SpecFault: Spec with the broker failing a publish and worker processes
\* ending abnormally
NextFault ==
    \/ \E data \in ValidPlans, ok \in BOOLEAN : create_plan(data, ok)
    \/ \E id \in PlanIds, data \in ValidPlans, ok \in BOOLEAN :
          put_plan(id, data, NoHeader, ok)
    \/ \E id \in PlanIds, u \in PipeUpdates, ok \in BOOLEAN :
          patch_plan(id, u, NoHeader, ok)
    \/ \E id \in PlanIds, ok \in BOOLEAN : delete_plan(id, ok)
    \/ \E job \in ForeignJobs : Enqueue(job)
    \/ \E w \in Solo : Deliver(w)
    \/ \E w \in Solo : on_msg(w)
    \/ \E w \in Solo : republish(w)
    \/ \E w \in Solo : to_dlq(w)
    \/ \E w \in Solo : Crash(w)
    \/ \E w \in Solo : PublishFails(w)

SpecFault == Init /\ [][NextFault]_vars

\* SpecApi: every request the handlers distinguish, the broker up or down,
\* no consumer running
NextApi ==
    \/ \E data \in ApiPlans, ok \in BOOLEAN : create_plan(data, ok)
    \/ \E id \in PlanIds, data \in ApiPlans, h \in IfMatchValues, ok \in BOOLEAN :
          put_plan(id, data, h, ok)
    \/ \E id \in PlanIds, u \in ApiUpdates, h \in IfMatchValues, ok \in BOOLEAN :
          patch_plan(id, u, h, ok)
    \/ \E id \in PlanIds, ok \in BOOLEAN : delete_plan(id, ok)

SpecApi == Init /\ [][NextApi]_vars

----------------------------------------------------------------------------
(* Vocabulary of the indexer claims *)

\* the child sub-objects of a record or update that carry an objectId, each
\* with the relation name of its position
IdChildren(d) ==
    (IF TruthyAt(GetDict(d, "planCostShares"), "objectId")
     THEN {<<"planCostShares", d["planCostShares"]>>} ELSE {})
    \cup
    { <<"linkedPlanServices", GetList(d, "linkedPlanServices")[n]["linkedService"]>> :
        n \in { m \in DOMAIN GetList(d, "linkedPlanServices") :
                TruthyAt(GetDict(GetList(d, "linkedPlanServices")[m], "linkedService"),
                         "objectId") } }
    \cup
    { <<"planserviceCostShares",
        GetList(d, "linkedPlanServices")[n]["planserviceCostShares"]>> :
        n \in { m \in DOMAIN GetList(d, "linkedPlanServices") :
                TruthyAt(GetDict(GetList(d, "linkedPlanServices")[m],
                                 "planserviceCostShares"), "objectId") } }

NamedIds(d) == { c[2]["objectId"] : c \in IdChildren(d) }

IsChildDoc(idx, i) == i \in DOMAIN idx /\ Has(idx[i].src["rel"], "parent")

SameDoc(idx1, idx2, i) ==
    (i \in DOMAIN idx1) = (i \in DOMAIN idx2)
    /\ (i \in DOMAIN idx1 => idx1[i] = idx2[i])

ScenarioRecord ==
    [objectId |-> "p1",
     linkedPlanServices |-> <<[linkedService |-> [objectId |-> "s1"]]>>]

\* C5: index_plan(record), for a record with an objectId, leaves a parent
\* document under the record's objectId and, for every child sub-object that
\* carries an objectId, a child document under the child's id, tagged with its
\* relation and routed to the record's objectId.
C5_IndexWritesParentAndChildren ==
    (lastCall.op = "index" /\ ~lastCall.raised) =>
        LET r   == lastCall.doc
            pid == r["objectId"]
        IN  /\ pid \in DOMAIN index
            /\ index[pid].src["rel"] = [name |-> "plan"]
            /\ index[pid].routing = pid
            /\ \A c \in IdChildren(r) :
                 /\ c[2]["objectId"] \in DOMAIN index
                 /\ index[c[2]["objectId"]].routing = pid
                 /\ index[c[2]["objectId"]].src["rel"] =
                        [name |-> c[1], parent |-> pid]

\* C6: patch_plan(id, updates) keeps every field of the already indexed parent
\* document that is not a key of updates (stated for updates that name no
\* child under the patched id itself, whose upsert would take the parent's
\* place).
C6_PatchMergesParent ==
    (/\ lastCall.op = "patch"
     /\ IsParentDoc(prevIndex, lastCall.id)
     /\ lastCall.id \notin NamedIds(lastCall.updates)) =>
        \A k \in (DOMAIN prevIndex[lastCall.id].src) \ (DOMAIN lastCall.updates) :
            /\ lastCall.id \in DOMAIN index
            /\ Has(index[lastCall.id].src, k)
            /\ index[lastCall.id].src[k] = prevIndex[lastCall.id].src[k]

\* C7 (as stated): patch_plan never deletes or modifies a child document that
\* updates does not name.
C7_PatchTouchesNoUnnamedChild ==
    lastCall.op = "patch" =>
        \A i \in DOMAIN prevIndex :
            (IsChildDoc(prevIndex, i) /\ i \notin NamedIds(lastCall.updates))
                => SameDoc(prevIndex, index, i)

\* C7 (amended): patch_plan writes only documents whose ids updates names as
\* children and the document stored under the patched id itself; every other
\* document is neither created, modified nor deleted, and the document under
\* the patched id is untouched too when updates has no parent-level field.
C7_PatchWritesOnlyNamedAndOwnId ==
    lastCall.op = "patch" =>
        /\ \A i \in ((DOMAIN prevIndex) \cup (DOMAIN index))
                    \ (NamedIds(lastCall.updates) \cup {lastCall.id}) :
               SameDoc(prevIndex, index, i)
        /\ (Omit(lastCall.updates, ChildKeys) = EmptyDict
            /\ lastCall.id \notin NamedIds(lastCall.updates))
               => SameDoc(prevIndex, index, lastCall.id)

\* a patch without child fields rewrote the parent while child documents
\* routed to it were indexed
C7_Witness ==
    /\ lastCall.op = "patch"
    /\ (DOMAIN lastCall.updates) \cap ChildKeys = {}
    /\ index # prevIndex
    /\ \E i \in DOMAIN prevIndex :
         /\ i # lastCall.id
         /\ IsChildDoc(prevIndex, i)
         /\ prevIndex[i].routing = lastCall.id

\* a parent was deleted while a child document routed to it was indexed
C8_Witness ==
    /\ lastCall.op = "delete"
    /\ lastCall.outcome = "ok"
    /\ IsParentDoc(prevIndex, lastCall.id)
    /\ \E i \in DOMAIN prevIndex :
         i # lastCall.id /\ prevIndex[i].routing = lastCall.id
    /\ index # prevIndex

\* C8 (as stated, its parenthesis): a delete of an id under which no document
\* is indexed leaves the index unchanged.
C8_DeleteOfMissingParentChangesNothing ==
    (lastCall.op = "delete" /\ lastCall.id \notin DOMAIN prevIndex)
        => index = prevIndex

\* C8 (amended): delete_plan_from_index(id) completes without error whatever
\* is indexed, so the worker acknowledges the job as a success; afterwards no
\* document has that id or is routed to it, whether or not a parent document
\* existed, and every other document is as it was (the index is unchanged
\* exactly when nothing was indexed under or routed to the id).
C8_DeleteCascades ==
    lastCall.op = "delete" =>
        /\ lastCall.outcome = "ok"
        /\ lastCall.id \notin DOMAIN index
        /\ RoutingHits(index, lastCall.id) = {}
        /\ DOMAIN index \subseteq DOMAIN prevIndex
        /\ \A i \in DOMAIN prevIndex :
             (i # lastCall.id /\ prevIndex[i].routing # lastCall.id)
                => SameDoc(prevIndex, index, i)

----------------------------------------------------------------------------
(* Vocabulary of the pipeline claims *)

Tags == DOMAIN pubs

\* the messages of a tag that are in the queue or delivered and unacknowledged
Pending ==
    { queue[i] : i \in DOMAIN queue }
    \cup { unacked[w] : w \in { v \in Workers : unacked[v] # NoMsg } }

\* the messages on_msg holds after its ack, to republish or dead-letter
HeldBy == { w \in Workers : pc[w] # "idle" }

DeadLetters == { dlq[i] : i \in DOMAIN dlq }

Transient(e) == e.body["error"] = "ConnectionError"

\* C1: on the transient-failure path a job is republished with attempt 1..5
\* only, each attempt counting one more republish of it, and is dead-lettered
\* only on its 6th failing delivery, after exactly 5 republishes, as
\* {error, job} where job is the published body plus attempt = 6.
C1_RetryCeiling ==
    /\ \A m \in Pending :
         /\ Attempt(m.body) \in 0..5
         /\ Attempt(m.body) = stats[m.tag].repub
         /\ Omit(m.body, {"attempt"}) = pubs[m.tag]
    /\ \A w \in HeldBy :
         cur[w].error = "ConnectionError" =>
            /\ pc[w] = "sleep" => Attempt(cur[w].body) \in 1..5
            /\ pc[w] = "to_dlq" => Attempt(cur[w].body) = 6
            /\ Attempt(cur[w].body) = stats[cur[w].tag].repub + 1
    /\ \A e \in DeadLetters :
         Transient(e) =>
            /\ DOMAIN e.body = {"error", "job"}
            /\ e.body["job"] = Merge(pubs[e.tag], [attempt |-> 6])
            /\ stats[e.tag].repub = 5
            /\ stats[e.tag].deliv = 6
            /\ stats[e.tag].applied = 0

\* a job failed on six deliveries and is on the dead-letter queue
C1_Witness ==
    \E e \in DeadLetters : Transient(e) /\ stats[e.tag].repub = 5

\* the fan-out of a stored record: what index_plan leaves in an empty index
FanOut(rec) == Run(NoIndex, index_plan(rec))

Docs(idx, ids) == { <<i, idx[i]>> : i \in ids }

Quiet ==
    /\ queue = <<>>
    /\ dlq = <<>>
    /\ \A w \in Workers : unacked[w] = NoMsg /\ pc[w] = "idle"

\* every index job so far carries a record whose objectId is the job's id
OwnIds ==
    \A t \in Tags :
        JobType(pubs[t]) = "index" => pubs[t]["doc"]["objectId"] = pubs[t]["id"]

\* C2: whenever the main queue is empty, no job is in flight and nothing was
\* dead-lettered, the documents with a record's id or routed to it are
\* exactly the fan-out of the record stored under that id, and none if no
\* record is stored under it (stated for the executions in which every record
\* was written under its own objectId).
C2_IndexMatchesStoreWhenQuiet ==
    (Quiet /\ OwnIds) =>
        \A id \in PlanIds :
            Docs(index, { i \in DOMAIN index : i = id \/ index[i].routing = id })
            = IF HasData(store, _key(id))
              THEN Docs(FanOut(get_data(store, _key(id))),
                        DOMAIN FanOut(get_data(store, _key(id))))
              ELSE {}

\* C3: every published job is in the main queue, delivered and not yet
\* acknowledged, held by the worker that is about to republish or
\* dead-letter it, applied to the index, or on the dead-letter queue.
C3_NoJobLost ==
    \A t \in Tags :
        \/ \E m \in Pending : m.tag = t
        \/ \E w \in HeldBy : cur[w].tag = t
        \/ stats[t].applied > 0
        \/ \E e \in DeadLetters : e.tag = t

\* a patch job in the form the API publishes it
IsApiPatchJob(job) ==
    /\ JobType(job) = "patch"
    /\ {"id", "plan_doc", "child_ops"} \subseteq DOMAIN job

\* C4: a patch job as the API publishes it is dispatched to the indexer's
\* patch operation: it is never dead-lettered for anything but the index
\* having been unreachable.
C4_ApiPatchJobNotDeadLettered ==
    \A e \in DeadLetters : IsApiPatchJob(e.body["job"]) => Transient(e)

UnknownType(job) == JobType(job) \notin {"index", "patch", "delete"}

\* C10: a job of an unrecognized type is never republished, never applied and
\* never slept on; once handled it is acknowledged and on the dead-letter
\* queue exactly once, after one delivery, as {error, job} with the job as
\* it was published (no attempt added).
C10_UnknownTypeDeadLetteredAtOnce ==
    \A t \in Tags :
        UnknownType(pubs[t]) =>
            /\ stats[t].repub = 0
            /\ stats[t].applied = 0
            /\ stats[t].deliv <= 1
            /\ \A m \in Pending : m.tag = t => m.body = pubs[t]
            /\ \A w \in HeldBy :
                 cur[w].tag = t => pc[w] = "to_dlq" /\ cur[w].body = pubs[t]
            /\ \A i \in DOMAIN dlq :
                 dlq[i].tag = t =>
                    /\ dlq[i].body = [error |-> "ValueError: Unknown job type",
                                      job |-> pubs[t]]
                    /\ \A j \in DOMAIN dlq : dlq[j].tag = t => j = i
            /\ (stats[t].deliv = 1 /\ \A m \in Pending : m.tag # t)
                 => \/ \E w \in HeldBy : cur[w].tag = t
                    \/ \E e \in DeadLetters : e.tag = t

\* a job of an unrecognized type is on the dead-letter queue
C10_Witness ==
    \E e \in DeadLetters :
        UnknownType(e.body["job"]) /\ stats[e.tag].deliv = 1

\* the request just answered was a PUT or PATCH for a stored record that
\* presented an If-Match digest other than the record's
StaleWrite ==
    /\ nreq' = nreq + 1
    /\ resp'.method \in {"PUT", "PATCH"}
    /\ HasData(store, _key(resp'.id))
    /\ resp'.ifMatch.kind = "digest"
    /\ resp'.ifMatch.value # _etag(get_data(store, _key(resp'.id)))

\* C9 (as stated): such a request is answered 412 and leaves the record store
\* and the queue as they were.
C9_StaleWriteIs412 ==
    [][StaleWrite => (resp'.status = 412 /\ UNCHANGED <<store, queue, pubs>>)]_vars

\* C9 (amended): such a request is rejected and leaves the record store and
\* the queue as they were; the answer is 412, except that a PUT whose body
\* fails schema validation is answered 400, validation coming first.
C9_StaleWriteRejected ==
    [][StaleWrite =>
         /\ UNCHANGED <<store, queue, pubs>>
         /\ resp'.status =
              IF resp'.method = "PUT" /\ ~validate_schema(resp'.body)
              THEN 400 ELSE 412]_vars

\* a PATCH and a PUT with a stale digest were answered 412 with a record stored
C9_Witness ==
    /\ resp.method \in {"PUT", "PATCH"}
    /\ resp.status = 412
    /\ resp.ifMatch.kind = "digest"
    /\ HasData(store, _key(resp.id))
    /\ queue # <<>>

----------------------------------------------------------------------------
(* SpecMalformed: one consumer and messages that are not well-formed jobs *)

\* a body that is not JSON, and jobs that lack the field their type reads
MalformedJobs ==
    { Garbage,
      [type |-> "index", id |-> "p1"],
      [type |-> "patch", doc |-> [planType |-> "b"]],
      [type |-> "delete"] }

NextMalformed ==
    \/ \E job \in MalformedJobs \cup ForeignJobs : Enqueue(job)
    \/ \E data \in ValidPlans : create_plan(data, TRUE)
    \/ \E w \in Solo : Deliver(w)
    \/ \E w \in Solo : on_msg(w)
    \/ \E w \in Solo : republish(w)
    \/ \E w \in Solo : to_dlq(w)

SpecMalformed == Init /\ [][NextMalformed]_vars

\* handling the message fails before any request to the index is made
NonTransient(body) == ~Decodes(body) \/ Dispatch(body).raises # "none"

AckCount(t) == IF t \in DOMAIN acks THEN acks[t] ELSE 0

\* C11: a message whose handling fails non-transiently (a body that is not
\* JSON, a job lacking the field its type needs, an unknown type) is delivered
\* once and never republished; once its delivery is over it has been
\* acknowledged once and is, or is about to be put, on the dead-letter queue
\* exactly once.
C11_NonTransientDeadLetteredOnce ==
    \A t \in Tags :
        NonTransient(pubs[t]) =>
            /\ stats[t].deliv <= 1
            /\ stats[t].repub = 0
            /\ Cardinality({ i \in DOMAIN dlq : dlq[i].tag = t }) <= 1
            /\ (stats[t].deliv = 1 /\ \A w \in Workers : unacked[w].tag # t)
                 => /\ AckCount(t) = 1
                    /\ \/ \E w \in Workers : pc[w] = "to_dlq" /\ cur[w].tag = t
                       \/ \E i \in DOMAIN dlq : dlq[i].tag = t

----------------------------------------------------------------------------
(* The API's publish discipline (SpecApi) *)

\* the step answers a mutation request
Mutation ==
    /\ nreq' = nreq + 1
    /\ resp'.method \in {"POST", "PUT", "PATCH", "DELETE"}

\* the id the request is about
Target(r) == IF r.method = "POST" THEN r.body["objectId"] ELSE r.id

Stale(r) ==
    /\ HasData(store, _key(r.id))
    /\ r.ifMatch.kind = "digest"
    /\ r.ifMatch.value # _etag(get_data(store, _key(r.id)))

\* the request passes the handler's validation and precondition checks
PastChecks(r) ==
    CASE r.method = "POST"  -> validate_schema(r.body) /\ TruthyAt(r.body, "objectId")
      [] r.method = "PUT"   -> validate_schema(r.body) /\ ~Stale(r)
      [] r.method = "PATCH" ->
             /\ HasData(store, _key(r.id))
             /\ ~Stale(r)
             /\ validate_schema(PatchMerged(get_data(store, _key(r.id)), r.body))
      [] r.method = "DELETE" -> TRUE

\* the record store after the request's write
WrittenStore(r) ==
    CASE r.method = "DELETE" -> delete_data(store, _key(r.id))
      [] r.method = "PATCH"  ->
             set_data(store, _key(r.id),
                      PatchMerged(get_data(store, _key(r.id)), r.body))
      [] OTHER -> set_data(store, _key(Target(r)), r.body)

\* the step put exactly one job, for the request's id, at the tail of the queue
OneJobPublished(r) ==
    /\ Len(pubs') = Len(pubs) + 1
    /\ pubs'[Len(pubs')]["id"] = Target(r)
    /\ queue' = Append(queue, [tag |-> Len(pubs'), body |-> pubs'[Len(pubs')]])

\* C12: a mutation request that passes validation and precondition checks
\* writes the record store and then either publishes exactly one job for its
\* id or, the publish failing, is answered 503 with the write in place; a
\* request that does not pass them writes and publishes nothing; 200, 201 and
\* 202 are returned only with exactly one job published, and a failed publish
\* is answered 503 and nothing else.
C12_PublishAfterWriteOr503 ==
    [][Mutation =>
         /\ PastChecks(resp') =>
              /\ store' = WrittenStore(resp')
              /\ \/ resp'.status \in {200, 201, 202, 404} /\ OneJobPublished(resp')
                 \/ resp'.status = 503 /\ UNCHANGED <<queue, pubs>>
              /\ resp'.status = 404 => resp'.method = "DELETE"
         /\ ~PastChecks(resp') =>
              /\ UNCHANGED <<store, queue, pubs>>
              /\ resp'.status \in {400, 404, 412}
         /\ resp'.status \in {200, 201, 202} => OneJobPublished(resp')]_vars

\* a PUT was answered 503 with its record written and no job on the queue
C12_Witness ==
    /\ resp.method = "PUT"
    /\ resp.status = 503
    /\ HasData(store, _key(resp.id))
    /\ get_data(store, _key(resp.id)) = resp.body
    /\ queue = <<>>

----------------------------------------------------------------------------
(* Routing and idempotence of the fan-out (SpecIdx) *)

\* the plan id an index or patch call fans out from
CallPlanId(call) == IF call.op = "index" THEN call.doc["objectId"] ELSE call.id

CallPayload(call) == IF call.op = "index" THEN call.doc ELSE call.updates

\* C13: every child document in the index is routed to the parent id its
\* relation tag records, and the children an index or patch call has just
\* written are tagged with and routed to the plan id of that call.
C13_ChildRoutedToParent ==
    /\ \A i \in DOMAIN index :
         IsChildDoc(index, i) => index[i].routing = index[i].src["rel"].parent
    /\ (lastCall.op \in {"index", "patch"} /\ ~lastCall.raised) =>
         \A i \in NamedIds(CallPayload(lastCall)) :
            /\ IsChildDoc(index, i)
            /\ index[i].routing = CallPlanId(lastCall)
            /\ index[i].src["rel"].parent = CallPlanId(lastCall)

\* a patch wrote a child while a child of another plan was indexed
C13_Witness ==
    /\ lastCall.op = "patch"
    /\ \E i \in NamedIds(lastCall.updates) : i # lastCall.id /\ IsChildDoc(index, i)
    /\ \E j \in DOMAIN index :
         IsChildDoc(index, j) /\ index[j].routing # lastCall.id

\* C14: in every index state, applying index_plan(r) twice for a record r with
\* an objectId leaves exactly the index that applying it once leaves, and
\* applying the index call just made once more changes nothing.
C14_IndexTwiceIsIndexOnce ==
    /\ \A r \in IdxRecords :
         ~IndexPlanRaises(r) =>
            Run(Run(index, index_plan(r)), index_plan(r)) = Run(index, index_plan(r))
    /\ (lastCall.op = "index" /\ ~lastCall.raised) =>
         Run(index, index_plan(lastCall.doc)) = index

\* a record with a parent and a child was indexed into an index that already
\* held its documents
C14_Witness ==
    /\ lastCall.op = "index"
    /\ ~lastCall.raised
    /\ nops = 2
    /\ prevIndex = index
    /\ IsParentDoc(index, lastCall.doc["objectId"])
    /\ \E i \in NamedIds(lastCall.doc) : IsChildDoc(index, i)

----------------------------------------------------------------------------
(* Conditional read (get_plan) and SpecRead: SpecApi with reads *)

\* a GET that treats any digest as current
IfNoneMatchHits_any(h, etag) == h.kind = "digest"

\* `if request.headers.get("If-None-Match") == etag`
IfNoneMatchHits(h, etag) == h.kind = "digest" /\ h.value = etag

\* the response body of a 304
NoBody == ""

get_plan(object_id, h) ==
    LET req == [method |-> "GET", id |-> object_id, ifMatch |-> NoHeader,
                ifNoneMatch |-> h, body |-> EmptyDict]
    IN  /\ UNCHANGED apiFrame
        /\ UNCHANGED <<store, queue, qargs, pubs, stats, nreq>>
        /\ IF ~HasData(store, _key(object_id))
           THEN resp' = req @@ [status |-> 404]
           ELSE LET data == get_data(store, _key(object_id))
                IN  IF IfNoneMatchHits(h, _etag(data))
                    THEN resp' = req @@ [status |-> 304, payload |-> NoBody]
                    ELSE resp' = req @@ [status |-> 200, payload |-> data,
                                         etag |-> _etag(data)]

NextRead ==
    \/ \E data \in ApiPlans, ok \in BOOLEAN : create_plan(data, ok)
    \/ \E id \in PlanIds, data \in ApiPlans, h \in IfMatchValues, ok \in BOOLEAN :
          put_plan(id, data, h, ok)
    \/ \E id \in PlanIds, u \in ApiUpdates, h \in IfMatchValues, ok \in BOOLEAN :
          patch_plan(id, u, h, ok)
    \/ \E id \in PlanIds, ok \in BOOLEAN : delete_plan(id, ok)
    \/ \E id \in PlanIds, h \in IfMatchValues : get_plan(id, h)

SpecRead == Init /\ [][NextRead]_vars

\* C15: the last request being a GET for a stored record with digest D, it
\* was answered 304 without a body if it presented If-None-Match = D, and
\* otherwise 200 with the stored record and ETag D; the last request being a
\* POST, PUT or PATCH answered 200/201, the ETag it returned is the digest of
\* the record now stored under its id.
C15_ConditionalRead ==
    /\ (resp.method = "GET" /\ HasData(store, _key(resp.id))) =>
         LET data == get_data(store, _key(resp.id))
         IN  IF resp.ifNoneMatch = [kind |-> "digest", value |-> _etag(data)]
             THEN resp.status = 304 /\ resp.payload = NoBody /\ ~Has(resp, "etag")
             ELSE /\ resp.status = 200
                  /\ resp.payload = data
                  /\ resp.etag = _etag(data)
    /\ (resp.method \in {"POST", "PUT", "PATCH"} /\ resp.status \in {200, 201}) =>
         /\ HasData(store, _key(Target(resp)))
         /\ resp.etag = _etag(get_data(store, _key(Target(resp))))

\* a GET presenting the digest of a record last written by a second request
\* was answered 304
C15_Witness ==
    /\ resp.method = "GET"
    /\ resp.status = 304
    /\ nreq = 2
    /\ HasData(store, _key(resp.id))

----------------------------------------------------------------------------
(* SpecRace: two request threads of the API (app.run serves each request in  *)
(* its own thread).  A conditional write reads the record and compares the   *)
(* digest in one access to the store and writes in a later one.              *)

\* seen: a record was stored when the thread compared digests
Finished(req, status, seen, fresh) ==
    [phase |-> "done", method |-> req.method, id |-> req.id,
     ifMatch |-> req.ifMatch, status |-> status, seen |-> seen, fresh |-> fresh]

Checked(req, toWrite, job, status) ==
    [phase |-> "checked", req |-> req, toWrite |-> toWrite, job |-> job,
     status |-> status, seen |-> HasData(store, _key(req.id))]

raceFrame == <<index, lastCall, prevIndex, nops, dlq, unacked, pc, cur, nfail, ncrash, acks>>

\* a thread's request is rejected by its checks
Reject(c, req, status) ==
    /\ Rejected(req, status)
    /\ txn' = [txn EXCEPT ![c] = Finished(req, status, FALSE, FALSE)]

\* a thread has passed its checks and goes on to write
Pass(c, req, toWrite, job, status) ==
    /\ txn' = [txn EXCEPT ![c] = Checked(req, toWrite, job, status)]
    /\ UNCHANGED <<store, queue, qargs, pubs, stats, resp, nreq>>

\* put_plan up to the If-Match comparison
put_check(c, object_id, payload, h) ==
    LET req == Request("PUT", object_id, h, payload)
    IN  /\ txn[c] = NoTxn
        /\ UNCHANGED raceFrame
        /\ IF ~validate_schema(payload) THEN Reject(c, req, 400)
           ELSE IF /\ HasData(store, _key(object_id))
                   /\ IfMatchFails(h, _etag(get_data(store, _key(object_id))))
                THEN Reject(c, req, 412)
           ELSE Pass(c, req, payload,
                     [type |-> "index", id |-> object_id, doc |-> payload], 201)

\* patch_plan up to the validation of the merged record, which is computed
\* from the record read at the start
patch_check(c, object_id, updates, h) ==
    LET req == Request("PATCH", object_id, h, updates)
    IN  /\ txn[c] = NoTxn
        /\ UNCHANGED raceFrame
        /\ IF ~HasData(store, _key(object_id)) THEN Reject(c, req, 404)
           ELSE LET existing == get_data(store, _key(object_id))
                    merged   == PatchMerged(existing, updates)
                IN  IF IfMatchFails(h, _etag(existing)) THEN Reject(c, req, 412)
                    ELSE IF ~validate_schema(merged) THEN Reject(c, req, 400)
                    ELSE Pass(c, req, merged, PatchJob(object_id, updates), 200)

\* the rest of put_plan or patch_plan: set_data, _publish_safe, the response.
\* fresh: whether the digest the thread presented is that of the record it
\* overwrites.
commit(c) ==
    LET t   == txn[c]
        key == _key(t.req.id)
    IN  /\ t.phase = "checked"
        /\ UNCHANGED raceFrame
        /\ store' = set_data(store, key, t.toWrite)
        /\ PublishSafe(t.job, TRUE, t.req, t.status, t.toWrite)
        /\ txn' = [txn EXCEPT ![c] =
                     Finished(t.req, t.status, t.seen,
                              /\ HasData(store, key)
                              /\ t.req.ifMatch = DigestHeader(get_data(store, key)))]

RaceHeaders == {DigestHeader(PlanA), DigestHeader(PlanB)}

NextRace ==
    \/ \E data \in ValidPlans : create_plan(data, TRUE)
    \/ \E c \in Clients, id \in PlanIds, data \in ApiPlans, h \in RaceHeaders :
          put_check(c, id, data, h)
    \/ \E c \in Clients, id \in PlanIds, u \in PipeUpdates, h \in RaceHeaders :
          patch_check(c, id, u, h)
    \/ \E c \in Clients : commit(c)

SpecRace == Init /\ [][NextRace]_vars

\* C16: a PUT or PATCH for a stored record that presented an If-Match digest
\* and was accepted overwrote a record whose digest was the one it presented.
C16_AcceptedOnlyIfCurrent ==
    \A c \in Clients :
        (/\ txn[c].phase = "done"
         /\ txn[c].status \in {200, 201}
         /\ txn[c].ifMatch.kind = "digest"
         /\ txn[c].seen) => txn[c].fresh

----------------------------------------------------------------------------
(* SpecDeclare: the pipeline from a broker without queues.  Both processes   *)
(* declare the main queue; the broker refuses a declaration whose arguments  *)
(* differ from those the queue has (406 PRECONDITION_FAILED).                *)

InitDeclare ==
    /\ index = NoIndex
    /\ lastCall = NoCall
    /\ prevIndex = NoIndex
    /\ nops = 0
    /\ store = <<>>
    /\ queue = <<>>
    /\ dlq = <<>>
    /\ unacked = [w \in Workers |-> NoMsg]
    /\ pc = [w \in Workers |-> "down"]
    /\ cur = [w \in Workers |-> NoMsg]
    /\ resp = NoResp
    /\ nreq = 0
    /\ pubs = <<>>
    /\ stats = <<>>
    /\ nfail = 0
    /\ ncrash = 0
    /\ txn = [c \in Clients |-> NoTxn]
    /\ acks = <<>>
    /\ qargs = NoQueue

\* queue_declare(queue, args) is accepted by the broker
DeclareOk(args) == qargs \in {NoQueue, args}

\* worker.main up to basic_consume: the worker consumes, or queue_declare
\* raises and main ends
main(w) ==
    /\ pc[w] = "down"
    /\ IF DeclareOk(PlainArgs)
       THEN qargs' = PlainArgs /\ pc' = [pc EXCEPT ![w] = "idle"]
       ELSE qargs' = qargs /\ pc' = [pc EXCEPT ![w] = "failed"]
    /\ UNCHANGED <<index, lastCall, prevIndex, nops, store, queue, dlq, unacked, cur,
                   resp, nreq, pubs, stats, nfail, ncrash, txn, acks>>

\* queue_service._channel: publish raises unless its declaration is accepted
ChannelOk == DeclareOk(DlxArgs)

Consuming(w) == pc[w] \notin {"down", "failed"}

\* jobs published by a client of the broker that declares nothing
DeclareJobs == ForeignJobs \cup { [type |-> "delete", id |-> "p1"] }

NextDeclare ==
    \/ \E w \in Solo : main(w)
    \/ \E data \in ValidPlans : create_plan(data, ChannelOk)
    \/ \E id \in PlanIds, data \in ValidPlans : put_plan(id, data, NoHeader, ChannelOk)
    \/ \E id \in PlanIds, u \in PipeUpdates : patch_plan(id, u, NoHeader, ChannelOk)
    \/ \E id \in PlanIds : delete_plan(id, ChannelOk)
    \/ \E job \in DeclareJobs : qargs # NoQueue /\ Enqueue(job)
    \/ \E w \in Solo : Consuming(w) /\ Deliver(w)
    \/ \E w \in Solo : on_msg(w)
    \/ \E w \in Solo : republish(w)
    \/ \E w \in Solo : to_dlq(w)

SpecDeclare == InitDeclare /\ [][NextDeclare]_vars

\* C17: the two declarations of the main queue agree, so whichever process
\* declares second is not refused: no worker ends at startup and no request
\* is answered 503.
C17_DeclarationsAgree ==
    /\ \A w \in Workers : pc[w] # "failed"
    /\ resp.method \in {"POST", "PUT", "PATCH", "DELETE"} => resp.status # 503

----------------------------------------------------------------------------
(* SpecWorkers: two consumers on the main queue, jobs from the API and jobs  *)
(* that arrive with an attempt already set                                   *)

WorkerJobs ==
    ForeignJobs
    \cup { [type |-> "reindex", id |-> "p1", attempt |-> 2],
           [type |-> "delete", id |-> "p2", attempt |-> 4] }

NextWorkers ==
    \/ \E data \in {PlanA} : create_plan(data, TRUE)
    \/ \E job \in WorkerJobs : Enqueue(job)
    \/ \E w \in Workers : Deliver(w)
    \/ \E w \in Workers : on_msg(w)
    \/ \E w \in Workers : republish(w)
    \/ \E w \in Workers : to_dlq(w)

SpecWorkers == Init /\ [][NextWorkers]_vars

\* where the copies of the message with tag t are
Queued(t) == { i \in DOMAIN queue : queue[i].tag = t }

Unacked(t) == { w \in Workers : unacked[w].tag = t }

Holding(t) == { w \in Workers : pc[w] \in {"sleep", "to_dlq"} /\ cur[w].tag = t }

Dead(t) == { i \in DOMAIN dlq : dlq[i].tag = t }

\* C18: every delivery whose handling is over was acknowledged exactly once
\* and none is acknowledged before; a message is delivered only because it
\* was published or republished, never because a delivery was rejected or
\* requeued; every acknowledgment is that of a job applied in full or of one
\* the worker then republishes or dead-letters, and while a worker sleeps
\* before a republish or is about to dead-letter, the delivery it handles is
\* acknowledged already.
C18_AckOncePerDelivery ==
    /\ \A t \in Tags :
         /\ AckCount(t) + Cardinality(Unacked(t)) = stats[t].deliv
         /\ Cardinality(Queued(t)) + stats[t].deliv = stats[t].repub + 1
         /\ AckCount(t) = stats[t].applied + stats[t].repub
                          + Cardinality(Holding(t)) + Cardinality(Dead(t))
    /\ \A w \in Workers :
         pc[w] \in {"sleep", "to_dlq"} =>
            /\ Unacked(cur[w].tag) = {}
            /\ AckCount(cur[w].tag) = stats[cur[w].tag].deliv

\* a worker sleeps before republishing a job for the second time
C18_Witness ==
    \E w \in Workers :
        /\ pc[w] = "sleep"
        /\ AckCount(cur[w].tag) = 2
        /\ stats[cur[w].tag].repub = 1

\* the job with its attempt field left out
Payload(job) == Omit(job, {"attempt"})

\* the attempt a job carries, 0 when it carries none
AttemptOf(job) == IF "attempt" \in DOMAIN job THEN job["attempt"] ELSE 0

\* C19: every copy of a job in the queue or delivered equals the published
\* job except for attempt, which is the published attempt (0 when absent)
\* plus the number of republishes, the unrepublished copy being the published
\* body itself; the job a worker is about to republish carries one more; a job
\* dead-lettered on a permanent failure carries the attempt it was received
\* with; and a job the API has just published has no attempt field.
C19_OnlyAttemptChanges ==
    /\ \A m \in Pending :
         /\ Payload(m.body) = Payload(pubs[m.tag])
         /\ AttemptOf(m.body) = AttemptOf(pubs[m.tag]) + stats[m.tag].repub
         /\ stats[m.tag].repub = 0 => m.body = pubs[m.tag]
    /\ \A w \in Workers :
         pc[w] \in {"sleep", "to_dlq"} =>
            /\ Payload(cur[w].body) = Payload(pubs[cur[w].tag])
            /\ AttemptOf(cur[w].body) =
                 AttemptOf(pubs[cur[w].tag]) + stats[cur[w].tag].repub
                 + (IF cur[w].error = "ConnectionError" THEN 1 ELSE 0)
            /\ cur[w].error # "ConnectionError" =>
                 Has(cur[w].body, "attempt") = Has(pubs[cur[w].tag], "attempt")
    /\ \A e \in DeadLetters :
         /\ Payload(e.body["job"]) = Payload(pubs[e.tag])
         /\ ~Transient(e) =>
              /\ AttemptOf(e.body["job"]) = AttemptOf(pubs[e.tag]) + stats[e.tag].repub
              /\ Has(e.body["job"], "attempt") = Has(pubs[e.tag], "attempt")
    /\ (resp.method = "POST" /\ resp.status = 201) =>
         ~Has(pubs[Len(pubs)], "attempt")

\* a job that arrived with attempt 4 was republished once with attempt 5 and
\* then dead-lettered with attempt 6
C19_Witness ==
    \E e \in DeadLetters :
        /\ Transient(e)
        /\ AttemptOf(pubs[e.tag]) = 4
        /\ stats[e.tag].repub = 1
        /\ e.body["job"]["attempt"] = 6

\* every published message is in exactly one place: the queue, one consumer's
\* unacknowledged delivery, one worker's hands after its ack, or resolved
Resolved(t) == stats[t].applied > 0 \/ Dead(t) # {}

InOnePlace(t) ==
    Cardinality(Queued(t)) + Cardinality(Unacked(t)) + Cardinality(Holding(t))
    + (IF Resolved(t) THEN 1 ELSE 0) = 1

\* the broker has just delivered a message to consumer w
Delivered(w) == unacked'[w] # NoMsg /\ unacked'[w] # unacked[w]

\* worker w has just taken up the handling of its delivery
Handled(w) == unacked[w] # NoMsg /\ unacked'[w] = NoMsg

----------------------------------------------------------------------------
(* C21: the order in which the jobs of one record are applied.  Checked    *)
(* under Spec: one producer, one consumer, index requests that may fail.   *)

\* the record a published job is about
TargetId(t) == IF Has(pubs[t], "id") THEN pubs[t]["id"] ELSE ""

\* this step is on_msg applying the job published as t to the end
Applies(t) == stats'[t].applied = stats[t].applied + 1

\* the job published as t has been handled to the end at least once
AppliedOnce(t) == stats[t].applied > 0

\* the job published as t waits in the queue or with a consumer
Waiting(t) ==
    \/ \E m \in Pending : m.tag = t
    \/ \E w \in HeldBy : cur[w].tag = t

\* C21: a job is applied after a job for the same record id that was
\* published later only if it failed transiently and was republished, and
\* as long as no index request has failed a job is applied only when no job
\* for the same id published before it is still waiting: without transient
\* failures the jobs of one id are applied in publish order.
C21_OutOfOrderOnlyAfterRetry ==
    [][ \A t \in Tags : Applies(t) =>
          /\ \A u \in Tags :
               (t < u /\ TargetId(u) = TargetId(t) /\ AppliedOnce(u))
                   => (stats[t].repub > 0 /\ nfail > 0)
          /\ nfail = 0 =>
               \A u \in Tags :
                   (u < t /\ TargetId(u) = TargetId(t)) => ~Waiting(u)
      ]_vars

\* the stale overwrite: an index job that was republished and a later index
\* job for the same id with another record have both been applied once, the
\* store holds the later record and the index holds the parent document of
\* the earlier one
C21_Witness ==
    \E t, u \in Tags :
        /\ t < u
        /\ JobType(pubs[t]) = "index" /\ JobType(pubs[u]) = "index"
        /\ TargetId(t) = TargetId(u)
        /\ pubs[t]["doc"] # pubs[u]["doc"]
        /\ stats[t].repub > 0
        /\ stats[t].applied = 1 /\ stats[u].applied = 1
        /\ Quiet
        /\ get_data(store, _key(TargetId(u))) = pubs[u]["doc"]
        /\ TargetId(t) \in DOMAIN index
        /\ index[TargetId(t)] = FanOut(pubs[t]["doc"])[TargetId(t)]
        /\ index[TargetId(t)] # FanOut(pubs[u]["doc"])[TargetId(t)]

----------------------------------------------------------------------------
(* C22: the ids of an index job.  create_plan takes the store key and the   *)
(* job's id from the record's objectId; put_plan takes both from the URL    *)
(* and never compares them with the objectId of the body.                   *)

\* the documents index_plan writes for `rec` that are left after the delete
\* job for `id` has been applied
LeftAfterDelete(rec, id) == DOMAIN Run(FanOut(rec), delete_plan_from_index(id))

\* C22: for every index job the API has published, the job's id is the
\* objectId of the record it carries, every stored record is stored under
\* its own objectId, and the delete job for the job's id removes every
\* document the worker indexes for the job's record.
C22_JobIdIsRecordIdIsStoreKey ==
    /\ \A t \in Tags :
         JobType(pubs[t]) = "index" =>
             /\ pubs[t]["doc"]["objectId"] = pubs[t]["id"]
             /\ LeftAfterDelete(pubs[t]["doc"], pubs[t]["id"]) = {}
    /\ \A id \in PlanIds :
         HasData(store, _key(id)) => get_data(store, _key(id))["objectId"] = id

====
